---- MODULE Spec2Model ----
(***************************************************************************)
(* ArborChat icon tooling: the Icon Synthesizer (scripts/generate-icon.py), *)
(* the Padding Normalizer (build/add_icon_padding.py), the Iconset          *)
(* Completer (build/prepare_and_generate_icons.py) and the Theme Recolorer  *)
(* (build/generate_themed_icons.py), as state machines over one file        *)
(* system.                                                                  *)
(*                                                                          *)
(* An icon file is a square RGBA raster.  It is kept as                     *)
(*   size : its pixel width (and height),                                   *)
(*   lo,hi: every pixel with a coordinate outside [lo,hi) on either axis is *)
(*          fully transparent (alpha 0); lo = hi = 0 when all of it is,     *)
(*   bg   : the RGB of its opaque, not near-white ("background") pixels.    *)
(* A single pixel is the tuple <<r, g, b, a>>, channels in 0..255.          *)
(***************************************************************************)
EXTENDS Integers, Sequences, FiniteSets, TLC

Max(a, b) == IF a >= b THEN a ELSE b
Min(a, b) == IF a <= b THEN a ELSE b

\* a missing file, a missing directory, Python's None
NoFile == [missing |-> "file"]
NoDir == [missing |-> "dir"]
None == [missing |-> "value"]

(***************************************************************************)
(* The tables of the scripts.                                               *)
(***************************************************************************)
\* add_icon_padding.py and generate_themed_icons.py: (filename, size) pairs
ICON_SIZES ==
    << <<"icon_16x16.png", 16>>,
       <<"icon_16x16@2x.png", 32>>,
       <<"icon_32x32.png", 32>>,
       <<"icon_32x32@2x.png", 64>>,
       <<"icon_128x128.png", 128>>,
       <<"icon_128x128@2x.png", 256>>,
       <<"icon_256x256.png", 256>>,
       <<"icon_256x256@2x.png", 512>>,
       <<"icon_512x512.png", 512>>,
       <<"icon_512x512@2x.png", 1024>> >>

\* prepare_and_generate_icons.py: (filename, size) pairs
REQUIRED_SIZES ==
    << <<"icon_16x16.png", 16>>,
       <<"icon_16x16@2x.png", 32>>,
       <<"icon_32x32.png", 32>>,
       <<"icon_32x32@2x.png", 64>>,
       <<"icon_128x128.png", 128>>,
       <<"icon_128x128@2x.png", 256>>,
       <<"icon_256x256.png", 256>>,
       <<"icon_256x256@2x.png", 512>>,
       <<"icon_512x512.png", 512>>,
       <<"icon_512x512@2x.png", 1024>> >>

\* generate-icon.py: (size, filename) pairs
icon_specs ==
    << <<16, "icon_16x16.png">>,
       <<32, "icon_16x16@2x.png">>,
       <<32, "icon_32x32.png">>,
       <<64, "icon_32x32@2x.png">>,
       <<128, "icon_128x128.png">>,
       <<256, "icon_128x128@2x.png">>,
       <<256, "icon_256x256.png">>,
       <<512, "icon_256x256@2x.png">>,
       <<512, "icon_512x512.png">>,
       <<1024, "icon_512x512@2x.png">> >>

\* generate-icon.py: the sizes of the multi-resolution ICO
ico_sizes == <<16, 32, 48, 64, 128, 256>>

\* generate-icon.py: the background of a synthesized icon, #5865f2
THEME_COLOR == <<88, 101, 242>>

\* the theme table with a pale golden-hour, #f4e5d4
THEMES_pale ==
    << <<"midnight",       <<"#", "5", "8", "6", "5", "f", "2">> >>,
       <<"aurora-glass",   <<"#", "8", "b", "5", "c", "f", "6">> >>,
       <<"linear-minimal", <<"#", "3", "b", "8", "2", "f", "6">> >>,
       <<"forest-deep",    <<"#", "2", "2", "c", "5", "5", "e">> >>,
       <<"neon-cyber",     <<"#", "f", "4", "7", "2", "b", "6">> >>,
       <<"golden-hour",    <<"#", "f", "4", "e", "5", "d", "4">> >>,
       <<"abyssal",        <<"#", "0", "0", "d", "4", "a", "a">> >>,
       <<"celestial",      <<"#", "f", "f", "6", "e", "b", "4">> >>,
       <<"ember",          <<"#", "f", "f", "6", "b", "3", "5">> >> >>

\* generate_themed_icons.py: theme name and its colour, a '#' and six hex digits
THEMES ==
    << <<"midnight",       <<"#", "5", "8", "6", "5", "f", "2">> >>,
       <<"aurora-glass",   <<"#", "8", "b", "5", "c", "f", "6">> >>,
       <<"linear-minimal", <<"#", "3", "b", "8", "2", "f", "6">> >>,
       <<"forest-deep",    <<"#", "2", "2", "c", "5", "5", "e">> >>,
       <<"neon-cyber",     <<"#", "f", "4", "7", "2", "b", "6">> >>,
       <<"golden-hour",    <<"#", "d", "4", "a", "5", "7", "4">> >>,
       <<"abyssal",        <<"#", "0", "0", "d", "4", "a", "a">> >>,
       <<"celestial",      <<"#", "f", "f", "6", "e", "b", "4">> >>,
       <<"ember",          <<"#", "f", "f", "6", "b", "3", "5">> >> >>

FileNames == { ICON_SIZES[k][1] : k \in 1..Len(ICON_SIZES) }
ThemeIds == 1..Len(THEMES)

\* CONTENT_RATIO = 0.84, as the fraction ContentRatioNum / ContentRatioDen
ContentRatioNum == 84
ContentRatioDen == 100

\* recolor_icon: white_threshold, and the alpha below which a pixel is transparent
white_threshold == 200
alpha_threshold == 128

(***************************************************************************)
(* Bounds of the model.                                                     *)
(***************************************************************************)
\* an initial iconset lacks at most MaxMissing of the ten files, or holds at
\* most MaxPresent of them
MaxMissing == 1
MaxPresent == 2
\* the Padding Normalizer is run at most MaxRuns times
MaxRuns == 3
\* the packaging tool exits non-zero for at most MaxBadThemes themes
MaxBadThemes == 1
\* a pixel is recolored at most MaxRecolors times
MaxRecolors == 2

(***************************************************************************)
(* generate_themed_icons.py: hex_to_rgb and the pixel rule of recolor_icon  *)
(***************************************************************************)
\* int(c, 16) of one hex digit
HexDigit(c) ==
    CASE c = "0" -> 0  [] c = "1" -> 1  [] c = "2" -> 2  [] c = "3" -> 3
      [] c = "4" -> 4  [] c = "5" -> 5  [] c = "6" -> 6  [] c = "7" -> 7
      [] c = "8" -> 8  [] c = "9" -> 9  [] c = "a" -> 10 [] c = "b" -> 11
      [] c = "c" -> 12 [] c = "d" -> 13 [] c = "e" -> 14 [] c = "f" -> 15

\* str.lstrip('#'): drop every leading '#'
RECURSIVE lstrip_hash(_)
lstrip_hash(s) ==
    IF s # << >> /\ Head(s) = "#" THEN lstrip_hash(Tail(s)) ELSE s

\* tuple(int(hex_color[i:i+2], 16) for i in (0, 2, 4)), indices from 0
hex_to_rgb(hex_color) ==
    LET h == lstrip_hash(hex_color)
        byte(k) == 16 * HexDigit(h[k + 1]) + HexDigit(h[k + 2])
    IN  <<byte(0), byte(2), byte(4)>>

\* near-white with the threshold itself counted as white
is_white_inclusive(p) ==
    p[1] >= white_threshold /\ p[2] >= white_threshold /\ p[3] >= white_threshold

is_white(p) ==
    p[1] > white_threshold /\ p[2] > white_threshold /\ p[3] > white_threshold

is_transparent(p) == p[4] < alpha_threshold

is_background(p) == ~is_white(p) /\ ~is_transparent(p)

\* recolor_icon on one pixel: data[is_background, 0..2] = new_r, new_g, new_b
RecolorPixel(p, new_bg_color) ==
    LET new == hex_to_rgb(new_bg_color)
    IN  IF is_background(p) THEN <<new[1], new[2], new[3], p[4]>> ELSE p

\* recolor_icon on a file: every pixel by the rule above, same size and alpha
recolor_icon(img, new_bg_color) ==
    LET q == RecolorPixel(<<img.bg[1], img.bg[2], img.bg[3], 255>>, new_bg_color)
    IN  [img EXCEPT !.bg = <<q[1], q[2], q[3]>>]

(***************************************************************************)
(* Images.                                                                  *)
(***************************************************************************)
Image(size, lo, hi, bg) ==
    IF lo < hi THEN [size |-> size, lo |-> lo, hi |-> hi, bg |-> bg]
               ELSE [size |-> size, lo |-> 0, hi |-> 0, bg |-> bg]

\* the side of the square that may hold visible pixels
Extent(img) == img.hi - img.lo

\* Image.resize((n, n), LANCZOS).  Output pixel xx is a weighted sum of the
\* source pixels [xmin, xmax) around center = (xx + 0.5) * scale, with
\* scale = size / n, support = 3 * max(scale, 1), xmin = int(center - support
\* + 0.5) and xmax = int(center + support + 0.5), clipped to the source.  It is
\* fully transparent when every source pixel of its window is.  Over 2 * n:
\*   xmin(xx) = max(0,    ((2 xx + 1) size - 6 max(size, n) + n) div (2 n))
\*   xmax(xx) = min(size, ((2 xx + 1) size + 6 max(size, n) + n) div (2 n))
\* The windows grow with xx and overlap, so the output pixels whose window meets
\* [lo, hi) are those from the first with xmax(xx) > lo to the last with
\* xmin(xx) < hi.
CeilDiv(a, b) == -((-a) \div b)

ResizeFirst(w, n, lo) ==
    Max(0, CeilDiv(2 * n * (lo + 1) - 6 * Max(w, n) - n - w, 2 * w))

ResizeLast(w, n, hi) ==
    Min(n - 1, CeilDiv(2 * n * hi + 6 * Max(w, n) - n - w, 2 * w) - 1)

Resize(img, n) ==
    IF img.lo < img.hi
    THEN Image(n, ResizeFirst(img.size, n, img.lo),
                  ResizeLast(img.size, n, img.hi) + 1, img.bg)
    ELSE Image(n, 0, 0, img.bg)

(***************************************************************************)
(* add_icon_padding.py                                                      *)
(***************************************************************************)
\* round(canvas_size * CONTENT_RATIO) in place of int()
ContentSizeRounded(canvas_size) ==
    (canvas_size * ContentRatioNum + ContentRatioDen \div 2) \div ContentRatioDen

\* int(canvas_size * CONTENT_RATIO)
ContentSize(canvas_size) == (canvas_size * ContentRatioNum) \div ContentRatioDen

\* (canvas_size - content_size) // 2
Offset(canvas_size, content_size) == (canvas_size - content_size) \div 2

\* add_padding_to_icon: the resized icon pasted, through its own alpha, at
\* (offset, offset) onto a transparent canvas_size x canvas_size canvas
add_padding_to_icon(img, canvas_size) ==
    LET cs == ContentSize(canvas_size)
        resized == Resize(img, cs)
        off == Offset(canvas_size, cs)
    IN  Image(canvas_size, off + resized.lo, off + resized.hi, img.bg)

\* the backup taken on every run
BackupStepAlways(backup_dir, iconset_dir) == iconset_dir

\* main: shutil.copytree(ICONSET_DIR, backup_dir) if the backup does not exist
BackupStep(backup_dir, iconset_dir) ==
    IF backup_dir = NoDir THEN iconset_dir ELSE backup_dir

\* the file is padded only when its border is not already transparent
PadEntryGuarded(dir, filename, size) ==
    IF dir[filename] # NoFile
       /\ ~(dir[filename].size = size
            /\ dir[filename].lo >= Offset(size, ContentSize(size)))
    THEN [dir EXCEPT ![filename] = add_padding_to_icon(dir[filename], size)]
    ELSE dir

\* main: the file is padded in place when it exists
PadEntry(dir, filename, size) ==
    IF dir[filename] # NoFile
    THEN [dir EXCEPT ![filename] = add_padding_to_icon(dir[filename], size)]
    ELSE dir

(***************************************************************************)
(* State.                                                                   *)
(***************************************************************************)
VARIABLES
    iconset,       \* build/icon.iconset: filename -> image or NoFile
    backup,        \* build/icon.iconset.original: NoDir, or a copy of an iconset
    themed,        \* build/themed-icons: theme -> NoDir or (filename -> image)
    icns,          \* the themes whose .icns container has been built
    outputs,       \* the files of build/ written by generate-icon.py
    env,           \* the host: the packaging tool and what fails
    pc,            \* position of the running script
    i,             \* index of the loop over the files
    t,             \* index of the loop over the themes
    runs,          \* completed runs of add_icon_padding.py
    log,           \* what the running script has printed
    content_size,  \* add_padding_to_icon: content_size of the last call
    offset,        \* add_padding_to_icon: offset of the last call
    source_img,    \* prepare_iconset: source_img
    source_size,   \* prepare_iconset: source_size
    result,        \* prepare_iconset: its return value
    themed_runs,   \* runs of generate_themed_icons.py as a subprocess
    calls,         \* the themes iconutil was invoked for, in order
    px,            \* a pixel as recolored so far
    px0,           \* that pixel before any recoloring
    applied,       \* the themes px was recolored with, in order
    orig,          \* the iconset as it was before the first run
    padded         \* filename -> the number of times the file was padded

fsVars == <<iconset, backup, themed, icns, outputs>>
padVars == <<runs, content_size, offset, orig, padded>>
prepVars == <<source_img, source_size, result, themed_runs>>
pixVars == <<px, px0, applied>>
vars == <<iconset, backup, themed, icns, outputs, env, pc, i, t, runs, log,
          content_size, offset, source_img, source_size, result, themed_runs,
          calls, px, px0, applied, orig, padded>>

NominalSize(filename) ==
    LET k == CHOOSE k \in 1..Len(ICON_SIZES) : ICON_SIZES[k][1] = filename
    IN  ICON_SIZES[k][2]

\* an icon as create_arbor_icon draws it: opaque up to the canvas edges
FreshIcon(size) == Image(size, 0, size, THEME_COLOR)

\* the initial iconsets: the files in present, each of its nominal size but
\* for odd, a file of half its nominal size
InitPresent ==
    { E \in SUBSET FileNames :
        \/ Cardinality(FileNames \ E) <= MaxMissing
        \/ Cardinality(E) <= MaxPresent }

InitIconset(present, odd) ==
    [f \in FileNames |->
        IF f \notin present THEN NoFile
        ELSE IF f = odd THEN FreshIcon(NominalSize(f) \div 2)
        ELSE FreshIcon(NominalSize(f))]

InitIconsets ==
    { InitIconset(E, odd) : E \in InitPresent, odd \in FileNames \cup {"none"} }

IdleEnv == [tool |-> "installed", bad |-> {}, base_fails |-> FALSE, ico_fail_at |-> 0]

\* everything but the iconset and the host, before any script has run
InitRest ==
    /\ backup = NoDir
    /\ themed = [k \in ThemeIds |-> NoDir]
    /\ icns = {}
    /\ outputs = {}
    /\ pc = "idle"
    /\ i = 1
    /\ t = 1
    /\ runs = 0
    /\ log = << >>
    /\ content_size = 0
    /\ offset = 0
    /\ source_img = None
    /\ source_size = 0
    /\ result = "None"
    /\ themed_runs = 0
    /\ calls = << >>
    /\ orig = iconset
    /\ padded = [f \in FileNames |-> 0]

InitPixel ==
    /\ px0 = <<0, 0, 0, 0>>
    /\ px = px0
    /\ applied = << >>

(***************************************************************************)
(* add_icon_padding.py: main                                                *)
(***************************************************************************)
\* lines 58-69: the banner, then the backup of the iconset
PadStart ==
    /\ pc = "idle"
    /\ runs < MaxRuns
    /\ backup' = BackupStep(backup, iconset)
    /\ log' = IF backup = NoDir THEN << <<"backed up">> >> ELSE << >>
    /\ i' = 1
    /\ pc' = "pad"
    /\ UNCHANGED <<iconset, themed, icns, outputs, env, t, calls>>
    /\ UNCHANGED <<padVars, prepVars, pixVars>>

\* lines 71-78: one iteration of the loop over ICON_SIZES
PadFile ==
    /\ pc = "pad"
    /\ i <= Len(ICON_SIZES)
    /\ LET filename == ICON_SIZES[i][1]
           size == ICON_SIZES[i][2]
       IN  /\ iconset' = PadEntry(iconset, filename, size)
           /\ IF iconset[filename] # NoFile
              THEN /\ content_size' = ContentSize(size)
                   /\ offset' = Offset(size, ContentSize(size))
                   /\ padded' = [padded EXCEPT ![filename] = @ + 1]
                   /\ log' = Append(log, <<"ok", filename, size>>)
              ELSE /\ UNCHANGED <<content_size, offset, padded>>
                   /\ log' = Append(log, <<"not found", filename>>)
    /\ i' = i + 1
    /\ UNCHANGED <<backup, themed, icns, outputs, env, pc, t, calls, runs, orig>>
    /\ UNCHANGED <<prepVars, pixVars>>

\* lines 80-84: the closing banner
PadDone ==
    /\ pc = "pad"
    /\ i > Len(ICON_SIZES)
    /\ runs' = runs + 1
    /\ pc' = "idle"
    /\ UNCHANGED <<fsVars, env, i, t, log, calls, content_size, offset, orig, padded>>
    /\ UNCHANGED <<prepVars, pixVars>>

InitPad ==
    /\ iconset \in InitIconsets
    /\ env = IdleEnv
    /\ InitRest
    /\ InitPixel

NextPad == PadStart \/ PadFile \/ PadDone

SpecPad == InitPad /\ [][NextPad]_vars

(***************************************************************************)
(* The external packaging tool, iconutil, as subprocess.run sees it.        *)
(***************************************************************************)
\* iconutil -c icns <icon-theme.iconset>, for theme k
ThemeToolOutcome(e, k) ==
    IF e.tool = "absent" THEN "FileNotFoundError"
    ELSE IF k \in e.bad THEN "nonzero"
    ELSE "zero"

\* iconutil -c icns <icon.iconset> -o icon.icns
BaseToolOutcome(e) ==
    IF e.tool = "absent" THEN "FileNotFoundError"
    ELSE IF e.base_fails THEN "nonzero"
    ELSE "zero"

(***************************************************************************)
(* generate_themed_icons.py                                                 *)
(***************************************************************************)
\* os.makedirs(iconset_path, exist_ok=True)
MakeDirs(dir) == IF dir = NoDir THEN [f \in FileNames |-> NoFile] ELSE dir

\* create_themed_iconset: one iteration of the loop over ICON_SIZES
ThemedEntry(dir, base_iconset, filename, theme_color) ==
    IF base_iconset[filename] # NoFile
    THEN [dir EXCEPT ![filename] = recolor_icon(base_iconset[filename], theme_color)]
    ELSE dir

\* convert_iconset_to_icns: check=True raises CalledProcessError on a non-zero
\* exit, which is caught; any other exception of subprocess.run propagates
convert_iconset_to_icns(e, k) ==
    CASE ThemeToolOutcome(e, k) = "zero" -> "icns_path"
      [] ThemeToolOutcome(e, k) = "nonzero" -> "None"
      [] OTHER -> "raise"

\* lines 118-127: the output directory, the banner
ThemeStart ==
    /\ pc = "idle"
    /\ t' = 1
    /\ log' = << >>
    /\ pc' = "theme"
    /\ UNCHANGED <<fsVars, env, i, calls>>
    /\ UNCHANGED <<padVars, prepVars, pixVars>>

\* lines 129-135, 87-91: the next theme, and its iconset directory
ThemeCreateDir ==
    /\ pc = "theme"
    /\ t <= Len(THEMES)
    /\ themed' = [themed EXCEPT ![t] = MakeDirs(@)]
    /\ log' = Append(log, <<"theme", THEMES[t][1]>>)
    /\ i' = 1
    /\ pc' = "theme_files"
    /\ UNCHANGED <<iconset, backup, icns, outputs, env, t, calls>>
    /\ UNCHANGED <<padVars, prepVars, pixVars>>

\* lines 94-102: one iteration of the loop over ICON_SIZES
ThemeFile ==
    /\ pc = "theme_files"
    /\ i <= Len(ICON_SIZES)
    /\ LET filename == ICON_SIZES[i][1]
       IN  /\ themed' = [themed EXCEPT
                           ![t] = ThemedEntry(@, iconset, filename, THEMES[t][2])]
           /\ log' = Append(log, IF iconset[filename] # NoFile
                                 THEN <<"Created", t, filename>>
                                 ELSE <<"WARNING not found", t, filename>>)
    /\ i' = i + 1
    /\ UNCHANGED <<iconset, backup, icns, outputs, env, pc, t, calls>>
    /\ UNCHANGED <<padVars, prepVars, pixVars>>

\* lines 104, 143, 106-115: the theme's iconset is handed to iconutil
ThemeConvert ==
    /\ pc = "theme_files"
    /\ i > Len(ICON_SIZES)
    /\ calls' = Append(calls, t)
    /\ LET r == convert_iconset_to_icns(env, t)
       IN  /\ icns' = IF r = "icns_path" THEN icns \cup {t} ELSE icns
           /\ log' = IF r = "None" THEN Append(log, <<"ERROR icns", t>>)
                     ELSE IF r = "raise" THEN Append(log, <<"Traceback", t>>)
                     ELSE Append(log, <<"Created icns", t>>)
           /\ pc' = IF r = "raise" THEN "crashed" ELSE "theme"
           /\ t' = IF r = "raise" THEN t ELSE t + 1
    /\ UNCHANGED <<iconset, backup, themed, outputs, env, i>>
    /\ UNCHANGED <<padVars, prepVars, pixVars>>

\* lines 145-149: the closing banner
ThemeDone ==
    /\ pc = "theme"
    /\ t > Len(THEMES)
    /\ pc' = "done"
    /\ UNCHANGED <<fsVars, env, i, t, log, calls>>
    /\ UNCHANGED <<padVars, prepVars, pixVars>>

\* the whole script, as the subprocess of prepare_and_generate_icons.py runs it
RECURSIVE ThemedDir(_, _, _, _)
ThemedDir(dir, base_iconset, theme_color, k) ==
    IF k > Len(ICON_SIZES) THEN dir
    ELSE ThemedDir(ThemedEntry(dir, base_iconset, ICON_SIZES[k][1], theme_color),
                   base_iconset, theme_color, k + 1)

RECURSIVE ThemeScript(_, _, _, _)
ThemeScript(st, base_iconset, e, k) ==
    IF k > Len(THEMES) THEN st
    ELSE LET dirs == [st.themed EXCEPT
                        ![k] = ThemedDir(MakeDirs(@), base_iconset, THEMES[k][2], 1)]
             r == convert_iconset_to_icns(e, k)
             st1 == [themed |-> dirs,
                     icns |-> IF r = "icns_path" THEN st.icns \cup {k} ELSE st.icns,
                     calls |-> Append(st.calls, k)]
         IN  IF r = "raise" THEN st1 ELSE ThemeScript(st1, base_iconset, e, k + 1)

ThemeEnvs ==
    { [tool |-> tl, bad |-> b, base_fails |-> FALSE, ico_fail_at |-> 0] :
        tl \in {"installed", "absent"},
        b \in { x \in SUBSET ThemeIds : Cardinality(x) <= MaxBadThemes } }

InitTheme ==
    /\ iconset \in { InitIconset(E, "none") : E \in InitPresent }
    /\ env \in { e \in ThemeEnvs : e.tool = "absent" => e.bad = {} }
    /\ InitRest
    /\ InitPixel

NextTheme == ThemeStart \/ ThemeCreateDir \/ ThemeFile \/ ThemeConvert \/ ThemeDone

SpecTheme == InitTheme /\ [][NextTheme]_vars

(***************************************************************************)
(* prepare_and_generate_icons.py                                            *)
(***************************************************************************)
\* sorted(REQUIRED_SIZES, key=lambda x: -x[1]): a stable sort, largest first
RECURSIVE InsertBySize(_, _)
InsertBySize(x, s) ==
    IF s = << >> THEN <<x>>
    ELSE IF -Head(s)[2] <= -x[2] THEN <<Head(s)>> \o InsertBySize(x, Tail(s))
    ELSE <<x>> \o s

RECURSIVE SortedBySize(_, _)
SortedBySize(seq, k) ==
    IF k = 0 THEN << >> ELSE InsertBySize(seq[k], SortedBySize(seq, k - 1))

\* the scan in the order of the table
ScanOrderUnsorted == REQUIRED_SIZES

ScanOrder == SortedBySize(REQUIRED_SIZES, Len(REQUIRED_SIZES))

\* size <= source_size takes the downscale branch, anything else warns
Upscaled(size, src_size) == ~(size <= src_size)

\* only the files that are missing are generated
GenEntryMissingOnly(dir, src, filename, size) ==
    IF dir[filename] = NoFile THEN [dir EXCEPT ![filename] = Resize(src, size)]
    ELSE dir

\* source_img.resize((size, size), LANCZOS) saved to the target path
GenEntry(dir, src, filename, size) ==
    [dir EXCEPT ![filename] = Resize(src, size)]

\* lines 30-36: the banner, source_img = None, source_size = 0
PrepStart ==
    /\ pc = "idle"
    /\ source_img' = None
    /\ source_size' = 0
    /\ log' = << >>
    /\ i' = 1
    /\ pc' = "scan"
    /\ UNCHANGED <<fsVars, env, t, calls, result, themed_runs>>
    /\ UNCHANGED <<padVars, pixVars>>

\* lines 38-46: one iteration of the scan for the source
PrepScan ==
    /\ pc = "scan"
    /\ i <= Len(ScanOrder)
    /\ LET filename == ScanOrder[i][1]
           img == iconset[filename]
       IN  IF img # NoFile /\ img.size >= source_size
           THEN /\ source_img' = img
                /\ source_size' = img.size
                /\ log' = Append(log, <<"Using source", filename, img.size>>)
                /\ pc' = "scanned"
                /\ i' = i
           ELSE /\ i' = i + 1
                /\ UNCHANGED <<source_img, source_size, log, pc>>
    /\ UNCHANGED <<fsVars, env, t, calls, result, themed_runs>>
    /\ UNCHANGED <<padVars, pixVars>>

\* the scan has run through the whole list
PrepScanEnd ==
    /\ pc = "scan"
    /\ i > Len(ScanOrder)
    /\ pc' = "scanned"
    /\ UNCHANGED <<fsVars, env, i, t, log, calls>>
    /\ UNCHANGED <<padVars, prepVars, pixVars>>

\* lines 48-50, 82-83: no source, prepare_iconset returns False, main reports it
PrepFail ==
    /\ pc = "scanned"
    /\ source_img = None
    /\ log' = log \o << <<"ERROR no source">>, <<"Failed to prepare iconset">> >>
    /\ result' = "False"
    /\ pc' = "done"
    /\ UNCHANGED <<fsVars, env, i, t, calls, source_img, source_size, themed_runs>>
    /\ UNCHANGED <<padVars, pixVars>>

\* lines 48, 52-53: a source was found
PrepGenStart ==
    /\ pc = "scanned"
    /\ source_img # None
    /\ i' = 1
    /\ pc' = "gen"
    /\ UNCHANGED <<fsVars, env, t, log, calls>>
    /\ UNCHANGED <<padVars, prepVars, pixVars>>

\* lines 54-66: one iteration of the loop over REQUIRED_SIZES
PrepGen ==
    /\ pc = "gen"
    /\ i <= Len(REQUIRED_SIZES)
    /\ LET filename == REQUIRED_SIZES[i][1]
           size == REQUIRED_SIZES[i][2]
       IN  /\ iconset' = GenEntry(iconset, source_img, filename, size)
           /\ log' = IF Upscaled(size, source_size)
                     THEN log \o << <<"WARNING upscaling", size, source_size>>,
                                    <<"Created", filename, size>> >>
                     ELSE Append(log, <<"Created", filename, size>>)
    /\ i' = i + 1
    /\ UNCHANGED <<backup, themed, icns, outputs, env, pc, t, calls>>
    /\ UNCHANGED <<padVars, prepVars, pixVars>>

\* lines 68, 71-73: prepare_iconset returns True
PrepReturn ==
    /\ pc = "gen"
    /\ i > Len(REQUIRED_SIZES)
    /\ result' = "True"
    /\ log' = Append(log, <<"Iconset prepared">>)
    /\ pc' = "themed"
    /\ UNCHANGED <<fsVars, env, i, t, calls, source_img, source_size, themed_runs>>
    /\ UNCHANGED <<padVars, pixVars>>

\* lines 75-81: generate_themed_icons.py run as a subprocess, its output relayed
PrepRunThemed ==
    /\ pc = "themed"
    /\ LET st == ThemeScript([themed |-> themed, icns |-> icns, calls |-> calls],
                             iconset, env, 1)
       IN  /\ themed' = st.themed
           /\ icns' = st.icns
           /\ calls' = st.calls
    /\ themed_runs' = themed_runs + 1
    /\ log' = Append(log, <<"relayed output">>)
    /\ pc' = "done"
    /\ UNCHANGED <<iconset, backup, outputs, env, i, t, source_img, source_size, result>>
    /\ UNCHANGED <<padVars, pixVars>>

InitPrep ==
    /\ iconset \in InitIconsets
    /\ env \in { e \in ThemeEnvs : e.bad = {} }
    /\ InitRest
    /\ InitPixel

NextPrep ==
    \/ PrepStart \/ PrepScan \/ PrepScanEnd \/ PrepFail
    \/ PrepGenStart \/ PrepGen \/ PrepReturn \/ PrepRunThemed

SpecPrep == InitPrep /\ [][NextPrep]_vars

(***************************************************************************)
(* generate-icon.py                                                         *)
(***************************************************************************)
\* create_arbor_icon(size, output_path): a size x size icon on THEME_COLOR
create_arbor_icon(size) == FreshIcon(size)

TempIco(size) == <<"temp_ico", size>>

\* lines 155-161: the directories
SynthStart ==
    /\ pc = "idle"
    /\ log' = << >>
    /\ i' = 1
    /\ pc' = "icons"
    /\ UNCHANGED <<fsVars, env, t, calls>>
    /\ UNCHANGED <<padVars, prepVars, pixVars>>

\* lines 178-180: one iteration of the loop over icon_specs
SynthIcon ==
    /\ pc = "icons"
    /\ i <= Len(icon_specs)
    /\ iconset' = [iconset EXCEPT ![icon_specs[i][2]] = create_arbor_icon(icon_specs[i][1])]
    /\ i' = i + 1
    /\ UNCHANGED <<backup, themed, icns, outputs, env, pc, t, log, calls>>
    /\ UNCHANGED <<padVars, prepVars, pixVars>>

\* lines 183-191: iconutil on the iconset; only its return code is looked at
SynthIconutil ==
    /\ pc = "icons"
    /\ i > Len(icon_specs)
    /\ LET r == BaseToolOutcome(env)
       IN  /\ outputs' = IF r = "zero" THEN outputs \cup {<<"icon.icns", 0>>} ELSE outputs
           /\ log' = Append(log, IF r = "zero" THEN <<"Successfully created icns">>
                                 ELSE IF r = "nonzero" THEN <<"iconutil error">>
                                 ELSE <<"Traceback">>)
           /\ pc' = IF r = "FileNotFoundError" THEN "crashed" ELSE "png"
    /\ UNCHANGED <<iconset, backup, themed, icns, env, i, t, calls>>
    /\ UNCHANGED <<padVars, prepVars, pixVars>>

\* lines 194-195: icon.png at 512
SynthPng ==
    /\ pc = "png"
    /\ outputs' = outputs \cup {<<"icon.png", 512>>}
    /\ i' = 1
    /\ pc' = "ico"
    /\ UNCHANGED <<iconset, backup, themed, icns, env, t, log, calls>>
    /\ UNCHANGED <<padVars, prepVars, pixVars>>

\* lines 198-204, 214-215: one temporary icon of the ICO; an exception ends the
\* try block and is reported
SynthIcoTemp ==
    /\ pc = "ico"
    /\ i <= Len(ico_sizes)
    /\ IF env.ico_fail_at = i
       THEN /\ log' = Append(log, <<"Could not create ICO">>)
            /\ pc' = "done"
            /\ UNCHANGED <<outputs, i>>
       ELSE /\ outputs' = outputs \cup {TempIco(ico_sizes[i])}
            /\ i' = i + 1
            /\ UNCHANGED <<log, pc>>
    /\ UNCHANGED <<iconset, backup, themed, icns, env, t, calls>>
    /\ UNCHANGED <<padVars, prepVars, pixVars>>

\* lines 206-215: icon.ico is saved and the temporary icons are removed
SynthIcoSave ==
    /\ pc = "ico"
    /\ i > Len(ico_sizes)
    /\ IF env.ico_fail_at = i
       THEN /\ log' = Append(log, <<"Could not create ICO">>)
            /\ UNCHANGED outputs
       ELSE /\ outputs' = (outputs \cup {<<"icon.ico", 0>>})
                              \ { TempIco(ico_sizes[k]) : k \in 1..Len(ico_sizes) }
            /\ log' = Append(log, <<"Created ico">>)
    /\ pc' = "done"
    /\ UNCHANGED <<iconset, backup, themed, icns, env, i, t, calls>>
    /\ UNCHANGED <<padVars, prepVars, pixVars>>

SynthEnvs ==
    { [tool |-> tl, bad |-> {}, base_fails |-> bf, ico_fail_at |-> k] :
        tl \in {"installed", "absent"}, bf \in BOOLEAN,
        k \in 0..(Len(ico_sizes) + 1) }

InitSynth ==
    /\ iconset \in { InitIconset(E, "none") : E \in InitPresent }
    /\ env \in { e \in SynthEnvs : e.tool = "absent" => ~e.base_fails }
    /\ InitRest
    /\ InitPixel

NextSynth ==
    \/ SynthStart \/ SynthIcon \/ SynthIconutil
    \/ SynthPng \/ SynthIcoTemp \/ SynthIcoSave

SpecSynth == InitSynth /\ [][NextSynth]_vars

(***************************************************************************)
(* recolor_icon, pixel by pixel                                             *)
(***************************************************************************)
\* channel values around the two thresholds, and those of the scenarios
RedValues == {90, 200, 201, 210, 255}
GreenValues == {95, 200, 201, 215, 255}
BlueValues == {0, 200, 201, 230, 255}
AlphaValues == {0, 50, 127, 128, 255}
Pixels == { <<r, g, b, a>> : r \in RedValues, g \in GreenValues,
                             b \in BlueValues, a \in AlphaValues }

\* the pixel goes through recolor_icon with the colour of theme k
Recolor(k) ==
    /\ pc = "idle"
    /\ Len(applied) < MaxRecolors
    /\ px' = RecolorPixel(px, THEMES[k][2])
    /\ applied' = Append(applied, k)
    /\ UNCHANGED <<fsVars, env, pc, i, t, log, calls, px0>>
    /\ UNCHANGED <<padVars, prepVars>>

InitPix ==
    /\ iconset = [f \in FileNames |-> NoFile]
    /\ env = IdleEnv
    /\ InitRest
    /\ px0 \in Pixels
    /\ px = px0
    /\ applied = << >>

NextPix == \E k \in ThemeIds : Recolor(k)

SpecPixel == InitPix /\ [][NextPix]_vars

(***************************************************************************)
(* Properties.                                                              *)
(***************************************************************************)
IndexOf(filename) == CHOOSE k \in 1..Len(ICON_SIZES) : ICON_SIZES[k][1] = filename

LogEntries(kind) == { k \in 1..Len(log) : log[k][1] = kind }

\* the file the Padding Normalizer has just padded, if any
JustPadded ==
    IF pc = "pad" /\ i > 1 /\ iconset[ICON_SIZES[i - 1][1]] # NoFile
    THEN {ICON_SIZES[i - 1]} ELSE {}

\* what add_padding_to_icon leaves, but for the margin after the content
PaddedOnce(filename, S) ==
    LET img == iconset[filename]
    IN  /\ img.size = S
        /\ ContentRatioDen * content_size <= ContentRatioNum * S
        /\ ContentRatioNum * S < ContentRatioDen * (content_size + 1)
        /\ 2 * offset <= S - content_size
        /\ S - content_size <= 2 * offset + 1
        /\ img.lo >= offset
        /\ img.hi <= offset + content_size
        /\ (padded[filename] = 1 /\ orig[filename].lo = 0
                /\ orig[filename].hi = orig[filename].size)
              => (img.lo = offset /\ img.hi = offset + content_size)
        /\ S = 128 => (content_size = 107 /\ offset = 10)

\* C1, as amended: one call of add_padding_to_icon on a canvas of size S leaves
\* an S x S image whose content square has side floor(S * 0.84) and starts at
\* offset (S - content_size) div 2 on each axis; every pixel outside that square
\* is fully transparent; the margin before the square is the offset and the
\* margin after it is S - content_size - offset, one pixel more when
\* S - content_size is odd (S = 128: content [10,117), margins 10 and 11).
C1_PaddingGeometry ==
    \A e \in JustPadded :
        /\ PaddedOnce(e[1], e[2])
        /\ e[2] - (offset + content_size) = offset + ((e[2] - content_size) % 2)
        /\ e[2] = 128 => e[2] - (offset + content_size) = 11

C1_Witness ==
    /\ pc = "pad"
    /\ i = 6
    /\ runs = 0
    /\ iconset["icon_128x128.png"] = Image(128, 10, 117, THEME_COLOR)
    /\ content_size = 107
    /\ offset = 10

\* C1, as stated: the margin on each side of the content square equals
\* (S - content_size) div 2.
C1_MarginOnEachSide ==
    \A e \in JustPadded :
        /\ PaddedOnce(e[1], e[2])
        /\ e[2] - (offset + content_size) = (e[2] - content_size) \div 2

\* the calls of add_padding_to_icon a file has seen: one per run
CallsSoFar(filename) ==
    runs + (IF pc = "pad" /\ i > IndexOf(filename) THEN 1 ELSE 0)

C8_BackupIsOriginal ==
    /\ backup # NoDir => backup = orig
    /\ (pc = "pad" \/ runs >= 1) => backup # NoDir
    /\ (pc = "idle" /\ runs = 0) => (backup = NoDir /\ iconset = orig)

C8_Witness ==
    /\ runs >= 2
    /\ backup = orig
    /\ \E f \in FileNames : iconset[f] # NoFile /\ iconset[f] # orig[f]

\* the theme colours as decimal RGB, in the order of the theme table
ThemeRGB ==
    << <<88, 101, 242>>, <<139, 92, 246>>, <<59, 130, 246>>, <<34, 197, 94>>,
       <<244, 114, 182>>, <<212, 165, 116>>, <<0, 212, 170>>, <<255, 110, 180>>,
       <<255, 107, 53>> >>

\* C2: one recoloring leaves a foreground pixel (r, g and b all above 200) and
\* a transparent pixel (alpha below 128) as they were, gives any other pixel
\* exactly the theme's RGB, and never changes the alpha.
C2_RecolorClasses ==
    Len(applied) = 1 =>
        LET rgb == ThemeRGB[applied[1]]
            fg == px0[1] > 200 /\ px0[2] > 200 /\ px0[3] > 200
            tr == px0[4] < 128
        IN  /\ px[4] = px0[4]
            /\ fg => px = px0
            /\ tr => px = px0
            /\ (~fg /\ ~tr) => px = <<rgb[1], rgb[2], rgb[3], px0[4]>>
            /\ px0 = <<210, 215, 230, 255>> => px = px0
            /\ px0 = <<90, 95, 230, 255>> => px = <<rgb[1], rgb[2], rgb[3], 255>>
            /\ px0[4] = 50 => px = px0

C2_Witness ==
    /\ applied = <<5>>
    /\ px0 = <<90, 95, 230, 255>>
    /\ px = <<244, 114, 182, 255>>

\* C10: every theme colour has a channel not above 200, so a recolored pixel
\* stays background: recoloring with A and then with B gives what recoloring
\* the original pixel with B gives, and the class of a pixel never changes.
C10_RecolorAbsorbs ==
    /\ \A k \in ThemeIds : \E c \in 1..3 : hex_to_rgb(THEMES[k][2])[c] <= 200
    /\ Len(applied) >= 1 => px = RecolorPixel(px0, THEMES[applied[Len(applied)]][2])
    /\ is_white(px) <=> is_white(px0)
    /\ is_transparent(px) <=> is_transparent(px0)
    /\ is_background(px) <=> is_background(px0)

C10_Witness ==
    /\ Len(applied) = 2
    /\ applied[1] # applied[2]
    /\ is_background(px0)
    /\ px = RecolorPixel(px0, THEMES[applied[2]][2])
    /\ px # RecolorPixel(px0, THEMES[applied[1]][2])

\* the sizes prepare_iconset has warned about, and how often it warned
WarnedSizes == { log[k][2] : k \in LogEntries("WARNING upscaling") }

UpscaledEntries == { k \in 1..Len(REQUIRED_SIZES) : REQUIRED_SIZES[k][2] > source_size }

\* C3: with a source found, prepare_iconset writes all ten required files, each
\* of exactly its required size and resampled from that one source, and warns
\* once for each required entry whose size exceeds the source's pixel width and
\* for no other; with a 512 px source that is the 1024 entry alone.
C3_CompleterOutput ==
    result = "True" =>
        /\ \A k \in 1..Len(REQUIRED_SIZES) :
              LET file == iconset[REQUIRED_SIZES[k][1]]
              IN  /\ file # NoFile
                  /\ file.size = REQUIRED_SIZES[k][2]
                  /\ file = Resize(source_img, REQUIRED_SIZES[k][2])
        /\ source_size = source_img.size
        /\ WarnedSizes = { REQUIRED_SIZES[k][2] : k \in UpscaledEntries }
        /\ Cardinality(LogEntries("WARNING upscaling")) = Cardinality(UpscaledEntries)
        /\ source_size = 512 => WarnedSizes = {1024}

C3_Witness ==
    /\ result = "True"
    /\ Cardinality({ f \in FileNames : orig[f] # NoFile }) = 1
    /\ source_size = 512
    /\ WarnedSizes = {1024}
    /\ \A f \in FileNames : iconset[f] # NoFile /\ iconset[f].size = NominalSize(f)

\* the file prepare_iconset reported as its source
SourceNames == { log[k][2] : k \in LogEntries("Using source") }

\* C4: the source is the first file that exists in the scan from the largest
\* to the smallest nominal size (ties in table order); prepare_iconset fails
\* exactly when none of the ten files exists, and then nothing is written and
\* the Theme Recolorer is not run.
C4_SourceSelection ==
    /\ source_img # None =>
          \E f \in SourceNames :
              /\ SourceNames = {f}
              /\ orig[f] # NoFile
              /\ source_img = orig[f]
              /\ \A g \in FileNames :
                    (\/ NominalSize(g) > NominalSize(f)
                     \/ (NominalSize(g) = NominalSize(f) /\ IndexOf(g) < IndexOf(f)))
                        => orig[g] = NoFile
    /\ pc = "done" => (result = "False" <=> \A f \in FileNames : orig[f] = NoFile)
    /\ pc = "done" => (result = "True" <=> themed_runs = 1)
    /\ result = "False" =>
          /\ iconset = orig
          /\ themed_runs = 0
          /\ calls = << >>
          /\ \A k \in ThemeIds : themed[k] = NoDir
          /\ LogEntries("ERROR no source") # {}
    /\ pc \in {"scan", "scanned"} => iconset = orig

C4_Witness ==
    /\ pc = "done"
    /\ result = "False"
    /\ \A f \in FileNames : iconset[f] = NoFile
    /\ themed_runs = 0

Terminated == pc \in {"done", "crashed"}

\* C5: whatever the packaging tool does (a non-zero exit, or no tool at all),
\* generate-icon.py goes on to write icon.png and to run the ICO step.
C5_ToolFailureDoesNotAbort ==
    Terminated =>
        /\ <<"icon.png", 512>> \in outputs
        /\ LogEntries("Created ico") \cup LogEntries("Could not create ICO") # {}

\* C6: in the Theme Recolorer a missing source file is reported and the other
\* files of the theme are still written, and a failure of the packaging tool
\* for one theme (a non-zero exit, or no tool at all) does not propagate: every
\* theme of the table is still recolored and handed to the tool.
C6_FailuresIsolated ==
    /\ \A k \in ThemeIds : \A f \in FileNames :
          (themed[k] # NoDir /\ (k < t \/ pc \in {"done", "crashed"}
                                   \/ (pc = "theme_files" /\ k = t /\ i > IndexOf(f))))
              => IF iconset[f] # NoFile
                 THEN themed[k][f] # NoFile
                 ELSE \E j \in LogEntries("WARNING not found") :
                          log[j] = <<"WARNING not found", k, f>>
    /\ pc # "crashed"
    /\ Terminated =>
          \A k \in ThemeIds :
              themed[k] # NoDir /\ \E j \in 1..Len(calls) : calls[j] = k

\* C9: the packaging tool is invoked once for each theme, in table order, after
\* the ten files of that theme have been processed, and recoloring leaves the
\* base iconset as it was.
C9_PackagedOncePerTheme ==
    /\ iconset = orig
    /\ \A j \in 1..Len(calls) : calls[j] = j
    /\ \A k \in ThemeIds :
          (pc = "theme_files" /\ k = t) => \A j \in 1..Len(calls) : calls[j] # k
    /\ Terminated => calls = [k \in ThemeIds |-> k]

====
